---- MODULE Spec2Model ----
(***************************************************************************)
(* Model of libulcd43's protocol/transport layer (src/src/util.c):         *)
(* the 16-bit parameter encoder, the device handle with its last error,    *)
(* its life from ulcd_new to ulcd_free, the setup of the serial line, and  *)
(* the blocking exchange command -> ACK/NAK -> optional payload.           *)
(*                                                                         *)
(* One exchange is one call of a public function by the (single-threaded)  *)
(* caller.  Every write(2)/read(2) the function issues is one step; the    *)
(* serial line (the environment) picks the outcome of the call in that     *)
(* step.  Control flow between two transport calls is folded into the      *)
(* step that follows the earlier call.                                     *)
(***************************************************************************)
EXTENDS Integers, Sequences, FiniteSets, TLC

(***************************************************************************)
(* Bounds of the model.                                                    *)
(***************************************************************************)
\* Longest command buffer handed to an exchange.
MaxSize == 3
\* Largest payload size (datasize) asked of ulcd_send_recv_ack_data.
MaxData == 4
\* Transport faults (a call returning -1 or 0) per exchange on an open line.
MaxFaults == 1
\* Width of size_t in the model.  The build has 32 or 64 bits; the model
\* checker's integers are 32-bit, so a narrower word stands for it.  The
\* wrap-around in the loops only needs 2^SizeBits to exceed every size.
SizeBits == 12
\* Most parameters handed to pack_uints.
MaxArgs == 2
\* Longest command buffer of an exchange with a payload (the command loop and
\* the payload loop multiply).
MaxPayloadCmd == 1
\* Most descriptors open() hands out to the process.
MaxOpens == 2
\* Largest baud-rate selector a caller stores in the handle.
MaxSelector == 19

(***************************************************************************)
(* Constants of ulcd43.h (the header is not among the sources; the values  *)
(* of ACK and NAK are the wire protocol's, ERROK is the zero every         *)
(* `if (call(...))` test of util.c relies on, and ERRNAK / ERRUNKNOWN are  *)
(* two further distinct codes).                                            *)
(***************************************************************************)
ACK == 6
NAK == 21
ERROK == 0
ERRNAK == 101
ERRUNKNOWN == 102

\* errno values of the failing system calls, and the descriptor open() yields.
ENOENT == 2
EIO == 5
EBADF == 9
OpenFd == 3

SIZE_MOD == 2 ^ SizeBits

\* A transfer count kept in a signed type (ssize_t), as write and read
\* return it.
ToSSizeT(x) == x

\* Conversion of an int or ssize_t to size_t.
ToSizeT(x) == x % SIZE_MOD

Bytes == 0 .. 255

(***************************************************************************)
(* Input alphabets.                                                        *)
(***************************************************************************)
\* The command buffers handed to an exchange: every length up to MaxSize, the
\* byte at each offset distinct from its neighbours' (some >= 0x80).
CmdByte(i) == IF i % 2 = 1 THEN i ELSE 256 - i
CmdBuffers == {[i \in 1 .. n |-> CmdByte(i)] : n \in 0 .. MaxSize}
PayloadCmdBuffers == {c \in CmdBuffers : Len(c) <= MaxPayloadCmd}

\* The bytes the device may send as the j-th payload byte of a reply to
\* function f: for the word exchange either of two bytes (one >= 0x80) in
\* each position; for the raw payload exchange a byte that tells its position
\* (some >= 0x80).
PayloadBytes == {18, 254}
StreamByte(j) == IF j % 2 = 1 THEN 100 + j ELSE 256 - j
DevicePayload(f, j) ==
    IF f = "send_recv_ack_word" THEN PayloadBytes ELSE {StreamByte(j)}

\* The chunks of k payload bytes the device may deliver after `before` bytes.
RECURSIVE Chunks(_, _, _)
Chunks(f, before, k) ==
    IF k = 0 THEN {<<>>}
    ELSE {Append(c, b) : c \in Chunks(f, before, k - 1),
                         b \in DevicePayload(f, before + k)}

\* Bytes in the acknowledgment position: every byte value when ulcd_recv_ack is
\* called on its own; inside a composite exchange ACK, NAK, an unknown reply
\* and ACK with the top bit set.
AckBytes(f) == IF f = "recv_ack" THEN Bytes ELSE {ACK, NAK, 66, 128 + ACK}

VARIABLES
    \* the build: whether plain char is signed
    charSigned,
    \* struct ulcd_t
    fd, error, err, baudrate,
    \* the process and the terminal: descriptors open() has returned, the
    \* descriptors handed to close() in order, the speed set on the line
    opened, closed, speed,
    \* the kind of line the exchanges run on (see LineKinds)
    lineKind,
    \* the call in progress: function, position, arguments
    op, pc, data, datasize, wantParam,
    \* locals of ulcd_send, ulcd_recv_ack, ulcd_send_recv_ack_data
    sendTotal, sent, r, recvTotal, bytes_read,
    \* the caller's payload buffer, the cells written so far, *param, return value
    buffer, bufInit, param, ret,
    \* the serial line as seen from outside during the current exchange:
    \* bytes accepted, payload bytes delivered, the transport calls in order,
    \* the outcome of the acknowledgment read, faults injected
    wire, rx, events, ackRes, faults,
    \* encoder harness: input, pack_uint output, unpack_uint output,
    \* pack_uints arguments, output buffer and return value, position
    v, packed, unpacked, args, out, outLen, epc

handleVars == <<fd, error, err>>
osVars == <<opened, closed>>
cfgVars == <<baudrate, speed>>
worldVars == <<osVars, cfgVars, lineKind>>
callVars == <<op, pc, data, datasize, wantParam>>
localVars == <<sendTotal, sent, r, recvTotal, bytes_read>>
resultVars == <<buffer, bufInit, param, ret>>
lineVars == <<wire, rx, events, ackRes, faults>>
encVars == <<v, packed, unpacked, args, out, outLen, epc>>
protoVars == <<handleVars, callVars, localVars, resultVars, lineVars, worldVars>>
vars == <<charSigned, protoVars, encVars>>

(***************************************************************************)
(* Encoder.                                                                *)
(***************************************************************************)
\* Storing an int in 0..255 into a plain char, and the byte a char holds.
ToChar(b) == IF charSigned /\ b >= 128 THEN b - 256 ELSE b
ToByte(c) == c % 256

RECURSIVE BitAnd(_, _)
\* a & b for non-negative a, b.
BitAnd(a, b) ==
    IF a = 0 \/ b = 0 THEN 0
    ELSE (a % 2) * (b % 2) + 2 * BitAnd(a \div 2, b \div 2)

\* x & mask for an int x (two's complement) and a mask below 2^16.
IntAnd(x, mask) == BitAnd(x % 65536, mask)

\* a | b for non-negative a, b.
BitOr(a, b) == a + b - BitAnd(a, b)

\* x << 8 on an int.  For a negative x (a signed char of a byte >= 0x80) the
\* compilers this code is built with shift the two's-complement pattern.
Shl8(x) == x * 256

\* pack_uint without the byte order of the wire: low byte first.
pack_uint_lsb_first(src) ==
    [dest |-> <<ToChar(BitAnd(src, 255)), ToChar(BitAnd(src, 65280) \div 256)>>,
     ret |-> 2]

\* pack_uint(dest, src): the two chars stored at dest[0], dest[1], and the
\* value returned.
pack_uint(src) ==
    [dest |-> <<ToChar(BitAnd(src, 65280) \div 256), ToChar(BitAnd(src, 255))>>,
     ret |-> 2]

\* unpack_uint without the mask on the low byte (a sign-extended char leaks
\* into the high bits).
unpack_uint_no_low_mask(src) ==
    LET hi == IntAnd(Shl8(src[1]), 65280)
    IN  IF src[2] >= 0 THEN BitOr(hi, src[2]) ELSE 65536 + src[2]

\* unpack_uint(dest, src): the value stored at *dest from the chars src[0],
\* src[1] (each promoted to int).
unpack_uint(src) ==
    BitOr(IntAnd(Shl8(src[1]), 65280), IntAnd(src[2], 255))

\* The caller's output buffer of pack_uints before the call (cmdbuf is a
\* zero-initialised global).
OutCap == 2 * MaxArgs + 2
ZeroBuffer == [i \in 1 .. OutCap |-> 0]

\* One iteration of the loop of pack_uints: pack_uint at the cursor.
StoreParam(buf, cursor, p) ==
    [buf EXCEPT ![cursor + 1] = pack_uint(p).dest[1],
                ![cursor + 2] = pack_uint(p).dest[2]]

\* The loop of pack_uints advancing the cursor by one char only.
RECURSIVE pack_uints_loop_step1(_, _, _, _)
pack_uints_loop_step1(buf, cursor, i, lst) ==
    IF i < Len(lst)
    THEN pack_uints_loop_step1(StoreParam(buf, cursor, lst[i + 1]), cursor + 1, i + 1, lst)
    ELSE buf

\* for (i = 0; i < args; i++) { pack_uint(buffer, va_arg(...)); buffer += 2; }
RECURSIVE pack_uints_loop(_, _, _, _)
pack_uints_loop(buf, cursor, i, lst) ==
    IF i < Len(lst)
    THEN pack_uints_loop(StoreParam(buf, cursor, lst[i + 1]), cursor + 2, i + 1, lst)
    ELSE buf

\* pack_uints(buffer, args, ...): the buffer afterwards and the value returned.
pack_uints(buf, lst) ==
    [buffer |-> pack_uints_loop(buf, 0, 0, lst), ret |-> Len(lst) * 2]

(***************************************************************************)
(* Device handle and error reporting.                                      *)
(***************************************************************************)
\* ulcd_error(ulcd, error, err, ...): the handle's error fields afterwards
\* (the format and its strerror argument stand for the formatted message)
\* and the value returned.
ulcd_error(code, fmt, arg) ==
    [error |-> code, err |-> <<fmt, arg>>, ret |-> code]

\* The message of a handle that reported nothing (memset in ulcd_new).
NoMessage == <<"", 0>>

MsgOpen == "Unable to open serial device: %s"
MsgSend == "Unable to send data to device: %s"
MsgRead == "Unable to read data from device: %s"
MsgNak == "Device sent NAK instead of ACK"
MsgUnknown == "Device sent unknown reply instead of ACK"

(***************************************************************************)
(* The serial line.                                                        *)
(***************************************************************************)
\* Two kinds of line.  On a "recorded" line a call may return -1 or 0, at
\* most MaxFaults times per exchange, and the history of the exchange (wire,
\* rx, events) is kept.  On a "progressing" line every call moves at least
\* one byte or reports an error, any number of times, and no history is
\* kept, so that the states of an exchange that never ends are finitely many.
LineKinds == {"recorded", "progressing"}
Recorded == lineKind = "recorded"

\* May the line fault (return -1 or 0) on the next call of this exchange?
MayFault == fd # -1 /\ (Recorded => faults < MaxFaults)

\* The results of a faulting call.
FaultResults == IF Recorded THEN {-1, 0} ELSE {-1}

\* Values write(fd, p, req) may return.
WriteResults(req) ==
    IF fd = -1 THEN {-1}
    ELSE (1 .. req) \cup (IF MayFault THEN FaultResults ELSE {})

\* Values read(fd, p, req) may return.
ReadResults(req) ==
    IF fd = -1 THEN {-1}
    ELSE (1 .. req) \cup (IF MayFault THEN FaultResults ELSE {})

\* errno after a call that returned -1.
ErrnoOf == IF fd = -1 THEN EBADF ELSE EIO

Faulted(res) == IF Recorded /\ res <= 0 /\ fd # -1 THEN faults + 1 ELSE faults

\* The history log after the entries x, on a line whose history is kept.
Record(log, x) == IF Recorded THEN log \o x ELSE log

(***************************************************************************)
(* Initial state: a handle fresh from ulcd_new, no call made yet.          *)
(***************************************************************************)
EncIdle ==
    /\ v = 0 /\ packed = <<0, 0>> /\ unpacked = 0
    /\ args = <<>> /\ out = ZeroBuffer /\ outLen = 0 /\ epc = "off"

\* ulcd_new
ulcd_new ==
    /\ fd = -1 /\ error = 0 /\ err = NoMessage /\ baudrate = 0

\* The line speed before the library has set one.
NoSpeed == -1

\* The process has opened and closed nothing, the line is as it was found.
NoDescriptors ==
    /\ opened = {} /\ closed = <<>> /\ speed = NoSpeed

NoCall ==
    /\ op = "none" /\ pc = "idle" /\ data = <<>> /\ datasize = 0
    /\ wantParam = FALSE
    /\ sendTotal = 0 /\ sent = 0 /\ r = 0 /\ recvTotal = 0 /\ bytes_read = 0
    /\ buffer = <<>> /\ bufInit = {} /\ param = 0 /\ ret = 0
    /\ wire = <<>> /\ rx = <<>> /\ events = <<>> /\ ackRes = "none" /\ faults = 0

Init ==
    /\ charSigned \in BOOLEAN
    /\ lineKind = "recorded"
    /\ ulcd_new
    /\ NoDescriptors
    /\ NoCall
    /\ EncIdle

(***************************************************************************)
(* Transport setup.                                                        *)
(***************************************************************************)
\* The descriptor a successful open() returns: the lowest one not in use
\* (none is closed before ulcd_free).
NextFd == OpenFd + Cardinality(opened)

\* Values open(ulcd->device, O_RDWR | O_NOCTTY) may return.
OpenResults ==
    {-1} \cup (IF Cardinality(opened) < MaxOpens THEN {NextFd} ELSE {})

\* An open whose failure is returned but not recorded on the handle.
OpenOutcomeUnrecorded(res) ==
    IF res = -1
    THEN [fd |-> res, error |-> error, err |-> err, ret |-> ENOENT]
    ELSE [fd |-> res, error |-> error, err |-> err, ret |-> ERROK]

\* ulcd_open_serial_device once open() has returned res: the handle's fields
\* and the value returned.
OpenOutcome(res) ==
    IF res = -1
    THEN LET e == ulcd_error(ENOENT, MsgOpen, ENOENT)
         IN  [fd |-> res, error |-> e.error, err |-> e.err, ret |-> e.ret]
    ELSE [fd |-> res, error |-> error, err |-> err, ret |-> ERROK]

\* ulcd_open_serial_device, between two exchanges, whatever ulcd->fd holds.
ulcd_open_serial_device ==
    /\ pc = "idle"
    /\ \E res \in OpenResults :
         LET o == OpenOutcome(res)
         IN  /\ fd' = o.fd /\ error' = o.error /\ err' = o.err /\ ret' = o.ret
             /\ opened' = IF res = -1 THEN opened ELSE opened \cup {res}
    /\ op' = "open" /\ pc' = "done"
    /\ UNCHANGED <<data, datasize, wantParam, localVars, buffer, bufInit, param>>
    /\ UNCHANGED <<lineVars, charSigned, encVars, closed, cfgVars, lineKind>>

\* baud_index: the device's baud-rate codes and the speed_t constant of each
\* (B110, B300, B600, B1200, B2400, B4800, B9600, B19200, B38400, B57600,
\* B115200, B500000, with their values in the Linux <termios.h>).
baud_index ==
    << [code |-> 0, speed |-> 3], [code |-> 1, speed |-> 7],
       [code |-> 2, speed |-> 8], [code |-> 3, speed |-> 9],
       [code |-> 4, speed |-> 11], [code |-> 5, speed |-> 12],
       [code |-> 6, speed |-> 13], [code |-> 8, speed |-> 14],
       [code |-> 10, speed |-> 15], [code |-> 12, speed |-> 4097],
       [code |-> 13, speed |-> 4098], [code |-> 18, speed |-> 4101] >>

TableCodes == {baud_index[i].code : i \in DOMAIN baud_index}
TableSpeeds == {baud_index[i].speed : i \in DOMAIN baud_index}

\* cfsetispeed / cfsetospeed(&options, s) on options holding speed cur: a
\* speed constant is stored; any other value is stored or refused with
\* EINVAL as the C library sees fit (the return value is not looked at).
cfsetspeed(cur, s) == IF s \in TableSpeeds THEN {s} ELSE {s, cur}

\* ulcd_set_serial_parameters: tcgetattr, the two speeds from ulcd->baudrate,
\* the 8N1 raw settings, tcsetattr; no result is looked at or returned.  On a
\* closed descriptor tcgetattr and tcsetattr fail and no line is touched.
ulcd_set_serial_parameters ==
    /\ pc = "idle"
    /\ IF fd = -1
       THEN UNCHANGED speed
       ELSE \E applied \in BOOLEAN, new \in cfsetspeed(speed, baudrate) :
              speed' = IF applied THEN new ELSE speed
    /\ UNCHANGED <<handleVars, callVars, localVars, resultVars, lineVars>>
    /\ UNCHANGED <<charSigned, encVars, osVars, baudrate, lineKind>>

\* An ulcd_free that closes whatever ulcd->fd holds.
ulcd_free_closes_always(f) == <<f>>

\* The descriptors ulcd_free hands to close() when ulcd->fd is f.
ulcd_free_closes(f) == IF f # -1 THEN <<f>> ELSE <<>>

\* ulcd_free, between two calls: close if ulcd->fd is not -1, then free.
ulcd_free ==
    /\ pc = "idle"
    /\ closed' = closed \o ulcd_free_closes(fd)
    /\ pc' = "freed"
    /\ UNCHANGED <<handleVars, op, data, datasize, wantParam, localVars>>
    /\ UNCHANGED <<resultVars, lineVars, charSigned, encVars>>
    /\ UNCHANGED <<opened, cfgVars, lineKind>>

(***************************************************************************)
(* Exchange protocol.                                                      *)
(***************************************************************************)
\* The caller enters public function f with command d, payload size n and
\* (for the word exchange) a non-NULL param iff p.  Locals are those of the
\* functions' prologues; the observation of the line starts afresh.
Begin(f, d, n, p) ==
    /\ pc = "idle"
    /\ op' = f /\ data' = d /\ datasize' = n /\ wantParam' = p
    /\ pc' = IF f = "recv_ack" THEN "recv_ack" ELSE "send_loop"
    /\ sendTotal' = 0 /\ sent' = 0 /\ r' = 0 /\ recvTotal' = 0 /\ bytes_read' = 0
    /\ buffer' = [i \in 1 .. n |-> 0] /\ bufInit' = {} /\ param' = 0 /\ ret' = 0
    /\ wire' = <<>> /\ rx' = <<>> /\ events' = <<>> /\ ackRes' = "none"
    /\ faults' = 0
    /\ UNCHANGED <<handleVars, charSigned, encVars, worldVars>>

call_ulcd_send == \E d \in CmdBuffers : Begin("send", d, 0, FALSE)

call_ulcd_recv_ack == Begin("recv_ack", <<>>, 0, FALSE)

call_ulcd_send_recv_ack == \E d \in CmdBuffers : Begin("send_recv_ack", d, 0, FALSE)

call_ulcd_send_recv_ack_data ==
    \E d \in PayloadCmdBuffers, n \in 0 .. MaxData :
        Begin("send_recv_ack_data", d, n, FALSE)

\* A word exchange that reads its payload only when the caller wants it.
word_datasize_skip_null(p) == IF p THEN 2 ELSE 0

\* The datasize ulcd_send_recv_ack_word hands to ulcd_send_recv_ack_data
\* (the size of its char buffer[2]), param being non-NULL (p) or NULL.
word_datasize(p) == 2

call_ulcd_send_recv_ack_word ==
    \E d \in PayloadCmdBuffers, p \in BOOLEAN :
        Begin("send_recv_ack_word", d, word_datasize(p), p)

\* What public function f returns when the call it made failed and left
\* `code` in ulcd->error, `direct` being the failed call's own return value.
FailReturn(f, direct, code) ==
    CASE f \in {"send", "recv_ack"} -> direct
      [] f \in {"send_recv_ack", "send_recv_ack_data"} -> code
      [] f = "send_recv_ack_word" -> -1

\* The bytes the line takes from data+total when write returns res.
WriteChunkFromStart(d, total, res) ==
    IF res > 0 THEN SubSeq(d, 1, res) ELSE <<>>

WriteChunk(d, total, res) ==
    IF res > 0 THEN SubSeq(d, total + 1, total + res) ELSE <<>>

\* One pass of the loop of ulcd_send: write, the sign test, the accumulation.
ulcd_send_write ==
    /\ pc = "send_loop"
    /\ sendTotal < ToSizeT(Len(data))
    /\ LET req == ToSizeT(Len(data) - sendTotal)
       IN  \E res \in WriteResults(req) :
             /\ sent' = ToSizeT(res)
             /\ wire' = Record(wire, WriteChunk(data, sendTotal, res))
             /\ events' = Record(events, <<[call |-> "write", req |-> req, res |-> res]>>)
             /\ faults' = Faulted(res)
             /\ IF sent' < 0
                THEN LET e == ulcd_error(ErrnoOf, MsgSend, ErrnoOf)
                     IN  /\ error' = e.error /\ err' = e.err
                         /\ ret' = FailReturn(op, e.ret, e.error)
                         /\ pc' = "done"
                         /\ UNCHANGED sendTotal
                ELSE /\ sendTotal' = ToSizeT(sendTotal + sent')
                     /\ UNCHANGED <<error, err, ret, pc>>
    /\ UNCHANGED <<fd, op, data, datasize, wantParam, r, recvTotal, bytes_read>>
    /\ UNCHANGED <<buffer, bufInit, param, rx, ackRes, charSigned, encVars, worldVars>>

\* The loop of ulcd_send ends: ulcd_send returns ERROK.
ulcd_send_return ==
    /\ pc = "send_loop"
    /\ ~(sendTotal < ToSizeT(Len(data)))
    /\ IF op = "send"
       THEN pc' = "done" /\ ret' = ERROK
       ELSE pc' = "recv_ack" /\ UNCHANGED ret
    /\ UNCHANGED <<handleVars, op, data, datasize, wantParam, localVars>>
    /\ UNCHANGED <<buffer, bufInit, param, lineVars, charSigned, encVars, worldVars>>

\* The classification of ulcd_recv_ack with NAK taken for success.
AckOutcomeNakOk(c) ==
    IF c = ACK \/ c = NAK
    THEN [error |-> error, err |-> err, ret |-> ERROK]
    ELSE ulcd_error(ERRUNKNOWN, MsgUnknown, 0)

\* The classification of ulcd_recv_ack on the char r.
AckOutcome(c) ==
    IF c = ACK
    THEN [error |-> error, err |-> err, ret |-> ERROK]
    ELSE IF c = NAK
         THEN ulcd_error(ERRNAK, MsgNak, 0)
         ELSE ulcd_error(ERRUNKNOWN, MsgUnknown, 0)

\* ulcd_recv_ack: one read of one byte into r, then the classification of r
\* and the returns up to the public function.  When the read delivers
\* nothing, r keeps its indeterminate content (any char).
ulcd_recv_ack ==
    /\ pc = "recv_ack"
    /\ \E res \in ReadResults(1), b \in AckBytes(op) :
         /\ bytes_read' = ToSizeT(res)
         /\ r' = ToChar(b)
         /\ ackRes' = IF res = 1 THEN "byte" ELSE IF res = 0 THEN "zero" ELSE "error"
         /\ events' = Record(events, <<[call |-> "read_ack", req |-> 1, res |-> res]>>)
         /\ faults' = Faulted(res)
         /\ LET o == AckOutcome(r')
                sra == IF o.ret # 0 THEN o.error ELSE ERROK
            IN  /\ error' = o.error /\ err' = o.err
                /\ CASE op = "recv_ack" -> pc' = "done" /\ ret' = o.ret
                     [] op = "send_recv_ack" -> pc' = "done" /\ ret' = sra
                     [] OTHER ->
                          IF sra # 0
                          THEN pc' = "done" /\ ret' = FailReturn(op, o.ret, o.error)
                          ELSE pc' = "data_loop" /\ UNCHANGED ret
    /\ UNCHANGED <<fd, op, data, datasize, wantParam, sendTotal, sent, recvTotal>>
    /\ UNCHANGED <<buffer, bufInit, param, wire, rx, charSigned, encVars, worldVars>>

\* read(fd, buffer+total, ...) storing every chunk at the start of the buffer.
StoreChunkAtStart(buf, total, chunk) ==
    [i \in DOMAIN buf |->
        IF i <= Len(chunk) THEN ToChar(chunk[i]) ELSE buf[i]]

\* read(fd, buffer+total, ...): the buffer after the chunk delivered.
StoreChunk(buf, total, chunk) ==
    [i \in DOMAIN buf |->
        IF total < i /\ i <= total + Len(chunk) THEN ToChar(chunk[i - total]) ELSE buf[i]]

\* A payload loop that stops one byte short.
PayloadPendingShort(total, size) == total + 1 < ToSizeT(size)

\* while (total < datasize)
PayloadPending(total, size) == total < ToSizeT(size)

\* One pass of the payload loop of ulcd_send_recv_ack_data.
ulcd_send_recv_ack_data_read ==
    /\ pc = "data_loop"
    /\ PayloadPending(recvTotal, datasize)
    /\ LET req == ToSizeT(datasize - recvTotal)
       IN  \E res \in ReadResults(req) :
           \E chunk \in Chunks(op, Len(rx), IF res > 0 THEN res ELSE 0) :
             /\ bytes_read' = ToSizeT(res)
             /\ buffer' = StoreChunk(buffer, recvTotal, chunk)
             /\ bufInit' = bufInit \cup (recvTotal + 1 .. recvTotal + Len(chunk))
             /\ rx' = Record(rx, chunk)
             /\ events' = Record(events, <<[call |-> "read_data", req |-> req, res |-> res]>>)
             /\ faults' = Faulted(res)
             /\ IF bytes_read' < 0
                THEN LET e == ulcd_error(ErrnoOf, MsgRead, ErrnoOf)
                     IN  /\ error' = e.error /\ err' = e.err
                         /\ ret' = FailReturn(op, e.ret, e.error)
                         /\ pc' = "done"
                         /\ UNCHANGED recvTotal
                ELSE /\ recvTotal' = ToSizeT(recvTotal + bytes_read')
                     /\ UNCHANGED <<error, err, ret, pc>>
    /\ UNCHANGED <<fd, op, data, datasize, wantParam, sendTotal, sent, r>>
    /\ UNCHANGED <<param, wire, ackRes, charSigned, encVars, worldVars>>

\* What a read of buffer cell i yields: the char stored there, or, for a cell
\* never written, an indeterminate char.
CellValues(i) ==
    IF i \in bufInit THEN {buffer[i]} ELSE {ToChar(b) : b \in PayloadBytes \cup {0}}

\* The payload loop ends: ulcd_send_recv_ack_data returns ERROK, and
\* ulcd_send_recv_ack_word decodes the two chars unless param is NULL.
ulcd_send_recv_ack_data_return ==
    /\ pc = "data_loop"
    /\ ~PayloadPending(recvTotal, datasize)
    /\ pc' = "done" /\ ret' = ERROK
    /\ IF op = "send_recv_ack_word" /\ wantParam
       THEN \E c1 \in CellValues(1), c2 \in CellValues(2) :
              param' = unpack_uint(<<c1, c2>>)
       ELSE UNCHANGED param
    /\ UNCHANGED <<handleVars, op, data, datasize, wantParam, localVars>>
    /\ UNCHANGED <<buffer, bufInit, lineVars, charSigned, encVars, worldVars>>

\* The public function has returned; the caller takes the result and the
\* frame of the call is gone.
caller_returns ==
    /\ pc = "done"
    /\ op' = "none" /\ pc' = "idle" /\ data' = <<>> /\ datasize' = 0
    /\ wantParam' = FALSE
    /\ sendTotal' = 0 /\ sent' = 0 /\ r' = 0 /\ recvTotal' = 0 /\ bytes_read' = 0
    /\ buffer' = <<>> /\ bufInit' = {} /\ param' = 0 /\ ret' = 0
    /\ wire' = <<>> /\ rx' = <<>> /\ events' = <<>> /\ ackRes' = "none"
    /\ faults' = 0
    /\ UNCHANGED <<handleVars, charSigned, encVars, worldVars>>

Next ==
    \/ caller_returns
    \/ ulcd_open_serial_device
    \/ call_ulcd_send
    \/ call_ulcd_recv_ack
    \/ call_ulcd_send_recv_ack
    \/ call_ulcd_send_recv_ack_data
    \/ call_ulcd_send_recv_ack_word
    \/ ulcd_send_write
    \/ ulcd_send_return
    \/ ulcd_recv_ack
    \/ ulcd_send_recv_ack_data_read
    \/ ulcd_send_recv_ack_data_return
    \/ ulcd_free

Spec == Init /\ [][Next]_vars

(***************************************************************************)
(* Transport setup on its own: a handle whose baud-rate selector the       *)
(* caller has stored, then opens, line configuration and ulcd_free.        *)
(***************************************************************************)
BaudSelectors == 0 .. MaxSelector

InitSetup ==
    /\ charSigned \in BOOLEAN
    /\ lineKind = "recorded"
    /\ fd = -1 /\ error = 0 /\ err = NoMessage /\ baudrate \in BaudSelectors
    /\ NoDescriptors
    /\ NoCall
    /\ EncIdle

NextSetup ==
    \/ caller_returns
    \/ ulcd_open_serial_device
    \/ ulcd_set_serial_parameters
    \/ ulcd_free

SpecSetup == InitSetup /\ [][NextSetup]_vars

(***************************************************************************)
(* The exchanges on a progressing line.  The program is one thread: a call *)
(* in progress takes its next step.                                        *)
(***************************************************************************)
InitLive ==
    /\ charSigned \in BOOLEAN
    /\ lineKind = "progressing"
    /\ ulcd_new
    /\ NoDescriptors
    /\ NoCall
    /\ EncIdle

CallSteps ==
    \/ ulcd_send_write
    \/ ulcd_send_return
    \/ ulcd_recv_ack
    \/ ulcd_send_recv_ack_data_read
    \/ ulcd_send_recv_ack_data_return

SpecLive == InitLive /\ [][Next]_vars /\ WF_vars(CallSteps)

(***************************************************************************)
(* Encoder harness: the pure functions applied to drawn inputs.            *)
(***************************************************************************)
\* Every value of a 16-bit parameter.
Params == 0 .. 65535

\* Parameters of the lists handed to pack_uints: both bytes below 0x80, one
\* or both at or above it, the extremes.
ListParams == {0, 255, 4660, 32897, 65535}
ParamLists == UNION {[1 .. n -> ListParams] : n \in 0 .. MaxArgs}

InitEnc ==
    /\ charSigned \in BOOLEAN
    /\ lineKind = "recorded"
    /\ ulcd_new
    /\ NoDescriptors
    /\ NoCall
    /\ packed = <<0, 0>> /\ unpacked = 0 /\ out = ZeroBuffer /\ outLen = 0
    /\ \/ epc = "param" /\ v \in Params /\ args = <<>>
       \/ epc = "list" /\ v = 0 /\ args \in ParamLists

do_pack_uint ==
    /\ epc = "param"
    /\ packed' = pack_uint(v).dest
    /\ outLen' = pack_uint(v).ret
    /\ epc' = "packed"
    /\ UNCHANGED <<v, unpacked, args, out, charSigned, protoVars>>

do_unpack_uint ==
    /\ epc = "packed"
    /\ unpacked' = unpack_uint(packed)
    /\ epc' = "unpacked"
    /\ UNCHANGED <<v, packed, args, out, outLen, charSigned, protoVars>>

do_pack_uints ==
    /\ epc = "list"
    /\ out' = pack_uints(out, args).buffer
    /\ outLen' = pack_uints(out, args).ret
    /\ epc' = "packed_list"
    /\ UNCHANGED <<v, packed, unpacked, args, charSigned, protoVars>>

NextEnc ==
    \/ do_pack_uint
    \/ do_unpack_uint
    \/ do_pack_uints

SpecEnc == InitEnc /\ [][NextEnc]_vars

(***************************************************************************)
(* Observations of the current exchange, used by the properties below.     *)
(***************************************************************************)
WriteEvents == SelectSeq(events, LAMBDA e : e.call = "write")
AckEvents == SelectSeq(events, LAMBDA e : e.call = "read_ack")
DataEvents == SelectSeq(events, LAMBDA e : e.call = "read_data")

\* Some write (payload read) of this exchange reported an error.
WriteFailed == \E i \in 1 .. Len(WriteEvents) : WriteEvents[i].res = -1
DataReadFailed == \E i \in 1 .. Len(DataEvents) : DataEvents[i].res = -1

\* The line is open and has behaved so far: every call moved at least a byte.
NoFault == fd # -1 /\ faults = 0

\* Bytes moved by the first k calls of a log.
RECURSIVE Moved(_, _)
Moved(log, k) ==
    IF k = 0 THEN 0
    ELSE Moved(log, k - 1) + (IF log[k].res > 0 THEN log[k].res ELSE 0)

\* The acknowledgment byte was delivered and is b.
AckByteIs(b) == ackRes = "byte" /\ ToByte(r) = b

(***************************************************************************)
(* Properties of the exchange protocol (specification Spec).               *)
(***************************************************************************)
\* C1: ulcd_recv_ack issues exactly one read, of one byte, and for every byte
\* b in 0..255 the line delivers: it returns ERROK iff b = ACK; it returns
\* ERRNAK with ERRNAK recorded on the handle iff b = NAK; for every other b
\* it returns ERRUNKNOWN with ERRUNKNOWN recorded on the handle.
C1_AckTrichotomy ==
    (op = "recv_ack" /\ pc = "done" /\ ackRes = "byte") =>
        /\ events = <<[call |-> "read_ack", req |-> 1, res |-> 1]>>
        /\ (ret = ERROK <=> ToByte(r) = ACK)
        /\ ((ret = ERRNAK /\ error = ERRNAK /\ err[1] = MsgNak) <=> ToByte(r) = NAK)
        /\ (ToByte(r) \notin {ACK, NAK} =>
                ret = ERRUNKNOWN /\ error = ERRUNKNOWN /\ err[1] = MsgUnknown)

\* Witness of C1: a lone ulcd_recv_ack was handed 0x42 and failed with
\* ERRUNKNOWN.
C1_Witness ==
    /\ op = "recv_ack" /\ pc = "done" /\ AckByteIs(66)
    /\ ret = ERRUNKNOWN /\ error = ERRUNKNOWN

\* C2: on a line whose every write accepts between 1 byte and all the bytes
\* offered, ulcd_send returns ERROK and the bytes the line accepted are the
\* buffer, in order, none missing or repeated (so the result is that of a
\* line taking the whole buffer in one write); while the loop runs the line
\* holds exactly the first `total` bytes.
C2_SendPartialWrites ==
    (op = "send" /\ NoFault) =>
        /\ pc = "send_loop" => wire = SubSeq(data, 1, sendTotal)
        /\ pc = "done" => ret = ERROK /\ wire = data

\* Witness of C2: a 3-byte buffer went out one byte per write.
C2_Witness ==
    /\ op = "send" /\ pc = "done" /\ NoFault /\ Len(data) = 3
    /\ Len(events) = 3
    /\ \A i \in 1 .. 3 : events[i].call = "write" /\ events[i].res = 1
    /\ wire = data /\ ret = ERROK

\* C3: ulcd_send_recv_ack_data with datasize N, after an ACK, on a line whose
\* every read delivers at least 1 byte: each read asks for at most N minus
\* the bytes already received, the bytes received lie in the caller's buffer
\* at offsets 0.. in arrival order, never more than N bytes are consumed,
\* and on return exactly N were.
C3_DataDrain ==
    (op = "send_recv_ack_data" /\ NoFault /\ AckByteIs(ACK)) =>
        /\ \A k \in 1 .. Len(DataEvents) :
               DataEvents[k].req <= datasize - Moved(DataEvents, k - 1)
        /\ Len(rx) = Moved(DataEvents, Len(DataEvents))
        /\ Len(rx) <= datasize
        /\ bufInit = 1 .. Len(rx)
        /\ \A i \in 1 .. Len(rx) : ToByte(buffer[i]) = rx[i]
        /\ pc = "done" => Len(rx) = datasize /\ ret = ERROK

\* Witness of C3: 4 payload bytes arrived in reads of 1, 2 and 1 bytes.
C3_Witness ==
    /\ op = "send_recv_ack_data" /\ pc = "done" /\ NoFault /\ AckByteIs(ACK)
    /\ datasize = 4 /\ Len(DataEvents) = 3
    /\ DataEvents[1].res = 1 /\ DataEvents[2].res = 2 /\ DataEvents[3].res = 1
    /\ ret = ERROK

\* C4: in ulcd_send_recv_ack on an open line, once a write has reported an
\* error no byte is read from the line in that exchange, and the exchange
\* returns that error's code, which is then the handle's last error.
C4_ShortCircuitOnSendFailure ==
    (op = "send_recv_ack" /\ fd # -1 /\ WriteFailed) =>
        /\ Len(AckEvents) = 0
        /\ pc = "done" => ret = ErrnoOf /\ error = ErrnoOf

\* C5: in ulcd_send on an open line, when a write reports an error (before
\* the first byte or after some were sent) the I/O error is recorded on the
\* handle with the OS error text, the call returns non-success, and no
\* further write is issued.
C5_SendAbortsOnWriteError ==
    (op = "send" /\ fd # -1 /\ WriteFailed) =>
        /\ WriteEvents[Len(WriteEvents)].res = -1
        /\ \A i \in 1 .. Len(WriteEvents) - 1 : WriteEvents[i].res # -1
        /\ pc = "done"
        /\ ret # ERROK
        /\ error = ErrnoOf /\ err = <<MsgSend, ErrnoOf>>

\* C6: in ulcd_send_recv_ack_data on an open line, when a payload read
\* reports an error the call fails with the I/O error recorded on the
\* handle; the call never returns ERROK having received fewer than datasize
\* payload bytes.
C6_DataReadError ==
    (op = "send_recv_ack_data" /\ fd # -1) =>
        /\ DataReadFailed =>
               /\ pc = "done" /\ ret # ERROK
               /\ error = ErrnoOf /\ err = <<MsgRead, ErrnoOf>>
        /\ (pc = "done" /\ ret = ERROK) => Len(rx) >= datasize

\* The transport calls of an exchange are writes, then at most one
\* acknowledgment read, then payload reads.
OrderedEvents ==
    \A i \in 1 .. Len(events), j \in 1 .. Len(events) :
        i < j =>
            /\ events[j].call = "write" => events[i].call = "write"
            /\ events[j].call = "read_ack" => events[i].call = "write"
            /\ events[i].call = "read_data" => events[j].call = "read_data"

\* C7: in an exchange with a payload (ulcd_send_recv_ack_data,
\* ulcd_send_recv_ack_word) on an open line all command bytes are written,
\* then exactly one acknowledgment byte is read, and payload is read only
\* after that byte was ACK; after NAK or an unknown byte no payload is read,
\* nothing is written again and the exchange fails with ERRNAK / ERRUNKNOWN
\* (recorded on the handle; returned as such by ulcd_send_recv_ack_data).
C7_ExchangeOrder ==
    (op \in {"send_recv_ack_data", "send_recv_ack_word"} /\ fd # -1) =>
        /\ OrderedEvents
        /\ Len(AckEvents) >= 1 => wire = data
        /\ Len(DataEvents) >= 1 => AckByteIs(ACK)
        /\ (ackRes = "byte" /\ ToByte(r) # ACK) =>
               /\ Len(DataEvents) = 0
               /\ pc = "done"
               /\ ret # ERROK
               /\ error = (IF ToByte(r) = NAK THEN ERRNAK ELSE ERRUNKNOWN)
               /\ op = "send_recv_ack_data" => ret = error

(***************************************************************************)
(* Properties of the encoder (specification SpecEnc).                      *)
(***************************************************************************)
\* C8: for every 16-bit v, unpack_uint of the two chars pack_uint(v) stored
\* is v, whether plain char is signed or not.
C8_RoundTrip ==
    epc = "unpacked" => unpacked = v

\* Witness of C8: a value with both bytes >= 0x80 made the round trip on a
\* build with signed char.
C8_Witness ==
    /\ epc = "unpacked" /\ charSigned
    /\ v \div 256 >= 128 /\ v % 256 >= 128
    /\ packed[1] < 0 /\ packed[2] < 0
    /\ unpacked = v

RECURSIVE ConcatPacked(_)
ConcatPacked(lst) ==
    IF lst = <<>> THEN <<>>
    ELSE pack_uint(Head(lst)).dest \o ConcatPacked(Tail(lst))

\* C10: for every ordered list p1..pn (n >= 0) pack_uints stores exactly
\* 2n bytes, the concatenation of pack_uint(p1) .. pack_uint(pn) in argument
\* order, leaves the rest of the buffer alone, and returns 2n.
C10_PackUintsConcat ==
    epc = "packed_list" =>
        /\ outLen = 2 * Len(args)
        /\ SubSeq(out, 1, outLen) = ConcatPacked(args)
        /\ \A j \in outLen + 1 .. Len(out) : out[j] = 0

\* Witness of C10: two different parameters were packed in order.
C10_Witness ==
    /\ epc = "packed_list" /\ Len(args) = 2 /\ args[1] # args[2]
    /\ outLen = 4
    /\ SubSeq(out, 1, 2) = pack_uint(args[1]).dest
    /\ SubSeq(out, 3, 4) = pack_uint(args[2]).dest

(***************************************************************************)
(* Properties of the error state of the handle (specification Spec).       *)
(***************************************************************************)
\* C11: the handle's error fields reflect only the most recent operation:
\* when an exchange on a well-behaved open line has returned ERROK, the
\* handle reports no error code and no message (none of an earlier failed
\* operation is left in place).
C11_LastErrorOnly ==
    (pc = "done" /\ op # "open" /\ ret = ERROK /\ NoFault) =>
        error = ERROK /\ err = NoMessage

FailureCodes == {ERRNAK, ERRUNKNOWN, ENOENT, EIO, EBADF}

\* C13: every operation (open, send, recv_ack and the three exchanges), on a
\* well-behaved line, returns either ERROK or exactly one failure code, and
\* a failure code returned is the code recorded as the handle's last error.
C13_ReturnIsLastError ==
    (pc = "done" /\ (op = "open" \/ NoFault)) =>
        \/ ret = ERROK
        \/ ret \in FailureCodes /\ ret = error

(***************************************************************************)
(* Properties of the transport setup and of the handle's life              *)
(* (specification Spec).                                                   *)
(***************************************************************************)
\* C14: every call of ulcd_open_serial_device whose open() fails returns
\* non-success, the code returned being the one recorded on the handle,
\* with the message "Unable to open serial device: " and the platform's
\* error text, and leaves ulcd->fd at -1 (closed); every call whose open()
\* succeeds returns ERROK with the descriptor just opened in ulcd->fd.
C14_OpenOutcome ==
    [][(pc = "idle" /\ pc' = "done" /\ op' = "open") =>
          IF opened' = opened
          THEN /\ ret' # ERROK
               /\ error' = ret'
               /\ err' = <<MsgOpen, ret'>>
               /\ fd' = -1
          ELSE /\ ret' = ERROK
               /\ opened' = opened \cup {fd'}
               /\ fd' \notin opened /\ fd' # -1]_vars

\* Witness of C14: an open failed on a handle that held an open descriptor.
C14_Witness ==
    /\ op = "open" /\ pc = "done" /\ ret = ENOENT /\ error = ENOENT
    /\ err = <<MsgOpen, ENOENT>> /\ fd = -1 /\ opened # {}

C15_AbsentSelectorRejected ==
    baudrate \notin TableCodes =>
        /\ fd = -1 /\ opened = {}
        /\ speed = NoSpeed

(***************************************************************************)
(* Properties of the transfer counts (specification Spec).                 *)
(***************************************************************************)
\* The running total after the first k calls of a log, each count taken as
\* the size_t it is stored in (-1 as 2^w - 1) and added modulo 2^w.
RECURSIVE WrappedSum(_, _)
WrappedSum(log, k) ==
    IF k = 0 THEN 0
    ELSE (WrappedSum(log, k - 1)
             + (IF log[k].res < 0 THEN SIZE_MOD + log[k].res ELSE log[k].res))
         % SIZE_MOD

\* C17: the count write / read returns is held in a size_t, so the test for
\* a negative count is never true: the I/O-error branch of ulcd_send and of
\* ulcd_send_recv_ack_data is never taken (their message is never on the
\* handle, ulcd_send always ends with ERROK), a returned -1 is held as
\* 2^w - 1, and every count, that one included, is added to the running
\* total modulo 2^w.
C17_ErrorBranchUnreachable ==
    /\ err[1] \notin {MsgSend, MsgRead}
    /\ error \notin {EIO, EBADF}
    /\ sent >= 0 /\ bytes_read >= 0
    /\ sendTotal = WrappedSum(WriteEvents, Len(WriteEvents))
    /\ recvTotal = WrappedSum(DataEvents, Len(DataEvents))
    /\ (events # <<>> /\ events[Len(events)].res = -1) =>
           IF events[Len(events)].call = "write"
           THEN sent = SIZE_MOD - 1
           ELSE bytes_read = SIZE_MOD - 1
    /\ (op = "send" /\ pc = "done") => ret = ERROK

\* Witness of C17: the first write of a 2-byte ulcd_send on an open line
\* returned -1; the count is held as 2^w - 1, the total has become 2^w - 1,
\* and nothing was recorded on the handle.
C17_Witness ==
    /\ op = "send" /\ fd # -1 /\ Len(data) = 2
    /\ events = <<[call |-> "write", req |-> 2, res |-> -1]>>
    /\ sent = SIZE_MOD - 1 /\ sendTotal = SIZE_MOD - 1
    /\ error = ERROK /\ err = NoMessage

(***************************************************************************)
(* Properties of the acknowledgment read (specification Spec).             *)
(***************************************************************************)
\* C18: when the one read of ulcd_recv_ack on an open line reports an error
\* or delivers no byte, ulcd_recv_ack takes the failure path: it does not
\* return ERROK, no byte having been received to classify.
C18_AckReadFailure ==
    (op = "recv_ack" /\ pc = "done" /\ fd # -1 /\ ackRes \in {"error", "zero"}) =>
        ret # ERROK

(***************************************************************************)
(* Termination of the exchanges (specification SpecLive).                  *)
(***************************************************************************)
\* C19: on a line whose every write and read either moves at least one byte
\* or reports an error, every call of ulcd_send, ulcd_send_recv_ack,
\* ulcd_send_recv_ack_data and ulcd_send_recv_ack_word, once entered,
\* eventually returns.
C19_ExchangeCompletes ==
    (op \in {"send", "send_recv_ack", "send_recv_ack_data", "send_recv_ack_word"}
        /\ pc \in {"send_loop", "recv_ack", "data_loop"})
    ~> (pc = "done")

(***************************************************************************)
(* Properties of the reply stream (specification Spec).                    *)
(***************************************************************************)
\* Reply bytes the current exchange has taken from the line: the
\* acknowledgment and the payload.
ReplyConsumed ==
    Moved(AckEvents, Len(AckEvents)) + Moved(DataEvents, Len(DataEvents))

\* C20: every exchange on a well-behaved line, however the line splits the
\* transfers, reads nothing before its whole command is written, reads the
\* acknowledgment as the first byte it takes from the line, never takes
\* more than 1 + datasize bytes, and when it returns ERROK has written
\* exactly its command and taken exactly 1 + datasize reply bytes (1 for
\* ulcd_send_recv_ack, 3 for ulcd_send_recv_ack_word): an exchange that
\* starts at a reply boundary leaves the line at one, so the byte every
\* exchange of a sequence examines as acknowledgment is the first reply byte
\* to its own command.
C20_ReplyBoundary ==
    (op \in {"send_recv_ack", "send_recv_ack_data", "send_recv_ack_word"}
        /\ NoFault) =>
        /\ OrderedEvents
        /\ Len(AckEvents) <= 1
        /\ ReplyConsumed >= 1 =>
               /\ wire = data
               /\ AckEvents = <<[call |-> "read_ack", req |-> 1, res |-> 1]>>
        /\ ReplyConsumed <= 1 + datasize
        /\ (pc = "done" /\ ret = ERROK) =>
               /\ wire = data
               /\ Moved(WriteEvents, Len(WriteEvents)) = Len(data)
               /\ AckByteIs(ACK)
               /\ ReplyConsumed = 1 + datasize
               /\ op = "send_recv_ack" => ReplyConsumed = 1
               /\ op = "send_recv_ack_word" => ReplyConsumed = 3

\* Witness of C20: a word exchange wrote its 1-byte command and took its 3
\* reply bytes in three reads.
C20_Witness ==
    /\ op = "send_recv_ack_word" /\ pc = "done" /\ ret = ERROK /\ NoFault
    /\ Len(data) = 1 /\ wire = data
    /\ Len(AckEvents) = 1 /\ Len(DataEvents) = 2 /\ ReplyConsumed = 3

====
